---- MODULE Spec2Model ----
(***************************************************************************)
(* Donation Wizard (students/john_navitsky/session06/mailroom.py).         *)
(*                                                                         *)
(* Text is modelled as a sequence of one-character strings, so that the    *)
(* string operations of the program (strip, split, title, upper, lower,    *)
(* join, float) are computed character by character.  Money amounts are    *)
(* integers counted in hundredths (float("20.5") is 2050).                 *)
(***************************************************************************)
EXTENDS Integers, Sequences, FiniteSets, TLC

(***************************************************************************)
(* Bounds of the model.                                                    *)
(***************************************************************************)
\* completed donation entries in one run
MaxEntries == 2

(***************************************************************************)
(* Characters and the str methods used by the program.                     *)
(***************************************************************************)
LowerLetters ==
  <<"a","b","c","d","e","f","g","h","i","j","k","l","m",
    "n","o","p","q","r","s","t","u","v","w","x","y","z">>

UpperLetters ==
  <<"A","B","C","D","E","F","G","H","I","J","K","L","M",
    "N","O","P","Q","R","S","T","U","V","W","X","Y","Z">>

Digits == <<"0","1","2","3","4","5","6","7","8","9">>

IndexIn(c, table) == CHOOSE i \in 1..Len(table) : table[i] = c

IsLowerChar(c) == \E i \in 1..Len(LowerLetters) : LowerLetters[i] = c

IsUpperChar(c) == \E i \in 1..Len(UpperLetters) : UpperLetters[i] = c

IsCased(c) == IsLowerChar(c) \/ IsUpperChar(c)

IsSpace(c) == c \in {" ", "\t"}

IsDigit(c) == \E i \in 1..Len(Digits) : Digits[i] = c

\* the characters of the model
Chars ==
  {LowerLetters[i] : i \in 1..Len(LowerLetters)}
    \cup {UpperLetters[i] : i \in 1..Len(UpperLetters)}
    \cup {Digits[i] : i \in 1..Len(Digits)}
    \cup {" ", "\t", ",", ".", "'", "-", "+"}

\* the case mappings, tabulated once
LowerTable ==
  [c \in Chars |->
     IF IsUpperChar(c) THEN LowerLetters[IndexIn(c, UpperLetters)] ELSE c]

UpperTable ==
  [c \in Chars |->
     IF IsLowerChar(c) THEN UpperLetters[IndexIn(c, LowerLetters)] ELSE c]

LowerChar(c) == LowerTable[c]

UpperChar(c) == UpperTable[c]

\* str.lower()
Lower(s) == [i \in 1..Len(s) |-> LowerChar(s[i])]

\* str.upper()
Upper(s) == [i \in 1..Len(s) |-> UpperChar(s[i])]

\* str.title(): a cased character is upper-cased when the character before
\* it is not cased, and lower-cased otherwise
Title(s) ==
  [i \in 1..Len(s) |->
     IF i > 1 /\ IsCased(s[i-1]) THEN LowerChar(s[i]) ELSE UpperChar(s[i])]

RECURSIVE LStrip(_)
LStrip(s) == IF s # <<>> /\ IsSpace(Head(s)) THEN LStrip(Tail(s)) ELSE s

RECURSIVE RStrip(_)
RStrip(s) ==
  IF s # <<>> /\ IsSpace(s[Len(s)]) THEN RStrip(SubSeq(s, 1, Len(s) - 1)) ELSE s

\* str.strip()
Strip(s) == RStrip(LStrip(s))

\* position of the first sep in s, or 0
RECURSIVE FindChar(_, _, _)
FindChar(s, sep, i) ==
  IF i > Len(s) THEN 0 ELSE IF s[i] = sep THEN i ELSE FindChar(s, sep, i + 1)

\* str.split(sep) for a one-character separator: "".split(",") is [""]
RECURSIVE SplitOn(_, _)
SplitOn(s, sep) ==
  IF FindChar(s, sep, 1) = 0 THEN <<s>>
  ELSE <<SubSeq(s, 1, FindChar(s, sep, 1) - 1)>>
         \o SplitOn(SubSeq(s, FindChar(s, sep, 1) + 1, Len(s)), sep)

\* length of the leading run of non-whitespace characters
RECURSIVE WordLen(_)
WordLen(s) == IF s = <<>> \/ IsSpace(Head(s)) THEN 0 ELSE 1 + WordLen(Tail(s))

\* str.split() without argument: the whitespace-separated tokens, none empty
RECURSIVE SplitWS(_)
SplitWS(s) ==
  IF s = <<>> THEN <<>>
  ELSE IF IsSpace(Head(s)) THEN SplitWS(Tail(s))
  ELSE LET n == WordLen(s)
       IN  <<SubSeq(s, 1, n)>> \o SplitWS(SubSeq(s, n + 1, Len(s)))

\* sep.join(parts)
RECURSIVE Join(_, _)
Join(sep, parts) ==
  IF parts = <<>> THEN <<>>
  ELSE IF Len(parts) = 1 THEN parts[1]
  ELSE parts[1] \o sep \o Join(sep, Tail(parts))

\* the `in` operator on two strings: sub occurs in s
Contains(s, sub) ==
  \E i \in 0..(Len(s) - Len(sub)) : SubSeq(s, i + 1, i + Len(sub)) = sub

(***************************************************************************)
(* float(text) on the decimal literals [sign] digits [. digits], at most   *)
(* two fraction digits; any other text raises ValueError.                  *)
(***************************************************************************)
RECURSIVE DigitsValue(_)
DigitsValue(s) ==
  IF s = <<>> THEN 0
  ELSE 10 * DigitsValue(SubSeq(s, 1, Len(s) - 1)) + (IndexIn(s[Len(s)], Digits) - 1)

AllDigits(s) == \A i \in 1..Len(s) : IsDigit(s[i])

Unsigned(s) == IF s # <<>> /\ Head(s) \in {"+", "-"} THEN Tail(s) ELSE s

float_raises(text) ==
  LET parts == SplitOn(Unsigned(text), ".")
  IN  ~ /\ Len(parts) \in {1, 2}
        /\ \A i \in 1..Len(parts) : AllDigits(parts[i])
        /\ \E i \in 1..Len(parts) : parts[i] # <<>>
        /\ Len(parts) = 2 => Len(parts[2]) <= 2

float(text) ==
  LET parts == SplitOn(Unsigned(text), ".")
      whole == DigitsValue(parts[1])
      frac  == IF Len(parts) = 1 THEN 0
               ELSE IF Len(parts[2]) = 1 THEN 10 * DigitsValue(parts[2])
               ELSE DigitsValue(parts[2])
      mag   == 100 * whole + frac
  IN  IF text # <<>> /\ Head(text) = "-" THEN 0 - mag ELSE mag

(***************************************************************************)
(* parse_name                                                              *)
(***************************************************************************)
\* informal_name: the text before the first comma, stripped and title-cased
informal_name_of(full_name) == Title(Strip(SplitOn(full_name, ",")[1]))

\* informal_name.split()[-1] raises IndexError when there is no token
parse_name_raises(full_name) == SplitWS(informal_name_of(full_name)) = <<>>

\* mutant of parse_name: only the first token is taken as the first name
parse_name_FirstTokenOnly(full_name) ==
  LET pieces   == SplitOn(full_name, ",")
      suffix   == IF Len(pieces) >= 2 THEN Upper(Strip(pieces[2])) ELSE <<>>
      informal == informal_name_of(full_name)
      tokens   == SplitWS(informal)
      last     == Title(Strip(tokens[Len(tokens)]))
      first    == IF Len(tokens) = 1 THEN <<>> ELSE Title(tokens[1])
      new_full == IF suffix # <<>>
                    THEN Join(<<",", " ">>, <<informal, suffix>>)
                    ELSE informal
  IN  [full_name |-> new_full, informal_name |-> informal, suffix |-> suffix,
       last_name |-> last, first_name |-> first]

parse_name(full_name) ==
  LET pieces   == SplitOn(full_name, ",")
      suffix   == IF Len(pieces) >= 2 THEN Upper(Strip(pieces[2])) ELSE <<>>
      informal == informal_name_of(full_name)
      tokens   == SplitWS(informal)
      last     == Title(Strip(tokens[Len(tokens)]))
      first    == Title(Join(<<" ">>, SubSeq(tokens, 1, Len(tokens) - 1)))
      new_full == IF suffix # <<>>
                    THEN Join(<<",", " ">>, <<informal, suffix>>)
                    ELSE informal
  IN  [full_name |-> new_full, informal_name |-> informal, suffix |-> suffix,
       last_name |-> last, first_name |-> first]

(***************************************************************************)
(* The words the prompts compare the typed line with.                      *)
(***************************************************************************)
\* ["q", "quit"] at the name and amount prompts, and in main
QuitWords == {<<"q">>, <<"q","u","i","t">>}

\* ["l", "list"]
ListWords == {<<"l">>, <<"l","i","s","t">>}

\* ["p", "print"]
PrintWords == {<<"p">>, <<"p","r","i","n","t">>}

\* ["s", "send", "e", "enter", "a", "add"]
EnterWords ==
  {<<"s">>, <<"s","e","n","d">>, <<"e">>, <<"e","n","t","e","r">>, <<"a">>, <<"a","d","d">>}

\* ["d", "debug"]
DebugWords == {<<"d">>, <<"d","e","b","u","g">>}

\* the loop condition of main: selection not in ["0", "quit", "q"]
LeaveWords == {<<"0">>, <<"q","u","i","t">>, <<"q">>}

\* 'exit'
ExitWord == <<"e","x","i","t">>

(***************************************************************************)
(* Lines the user types (before safe_input strips them).  An interrupt or  *)
(* end of input is the empty line.                                         *)
(***************************************************************************)
MainInputs ==
  { <<"l">>, <<"L","i","s","t">>, <<"p">>, <<"e">>,
    <<"a","d","d">>, <<"d">>, <<" ","Q"," ">>, <<"q","u","i","t">>,
    <<"0">>, <<>>, <<"x">> }

NameInputs ==
  { <<"a","l"," ","b","o">>, <<" ","A","L"," ","B","O"," ">>,
    <<"a","l"," "," ","b","o">>, <<"a","l"," ","b","o",","," ","j","r">>,
    <<"b","o"," ","a","l">>, <<"a","l">>,
    <<",">>, <<","," ","j","r">>,
    <<"q">>, <<"Q","u","i","t">>, <<"l">>,
    <<"L","I","S","T">>, <<>> }

AmountInputs ==
  { <<"1","0">>, <<"2","0",".","5">>, <<"0">>,
    <<"a","b","c">>, <<>>, <<"q">>, <<"Q","U","I","T">> }

AbortInputs ==
  { <<"e","x","i","t">>, <<>>, <<"n","o">>, <<"d","o","n","'","t"," ","e","x","i","t">> }

(***************************************************************************)
(* Wind-revenue UI (students/eowyn/windrevenue/windrevenue/UI.py).         *)
(* Python values: the type, and the text that tells values of the type     *)
(* apart.                                                                  *)
(***************************************************************************)
MaxCalls == 3

PyNone == [type |-> "NoneType", repr |-> "None"]
PyTrue == [type |-> "bool", repr |-> "True"]
PyFalse == [type |-> "bool", repr |-> "False"]
PyStr(s) == [type |-> "str", repr |-> s]
PyInt(s) == [type |-> "int", repr |-> s]

\* a local that no statement has bound yet
PyUnbound == [type |-> "unbound", repr |-> ""]

\* bool(v), as `if answer:` and `if result:` test it
Truthy(v) ==
  CASE v.type = "NoneType" -> FALSE
    [] v.type = "bool"     -> v.repr = "True"
    [] v.type = "str"      -> v.repr # ""
    [] v.type = "int"      -> v.repr # "0"

\* what an action of another module may return
PyValues ==
  {PyNone, PyTrue, PyFalse, PyStr(""), PyStr("ok"), PyInt("0"), PyInt("1")}

\* the menu dictionaries of mainloop, met_loop and revenue_loop
MainMenu ==
  ("1" :> "met_loop") @@ ("2" :> "powercurve_loop") @@ ("3" :> "pricing_loop")
  @@ ("4" :> "peakhours_loop") @@ ("5" :> "revenue_loop") @@ ("6" :> "quit_code")

MetMenu ==
  ("1" :> "met.parse_met_file") @@ ("2" :> "met.inspect_met_sensor")
  @@ ("3" :> "met.change_met_sensor") @@ ("4" :> "return_to_menu")

RevenueMenu == ("1" :> "get_gross_revenue") @@ ("2" :> "return_to_menu")

\* no dictionary: the program is not in run_interactive_loop
NoDict == <<>>

Returns(v) == [kind |-> "returns", value |-> v, exc |-> ""]
Raises(e) == [kind |-> "raises", value |-> PyNone, exc |-> e]

\* no action was called
NoCall == [kind |-> "none", value |-> PyNone, exc |-> ""]

\* how a call of the action can end
ActionOutcomes(action) ==
  CASE action = "return_to_menu" -> {Returns(PyTrue)}
    [] action = "quit_code" -> {Raises("SystemExit")}
    [] action \in {"met_loop", "powercurve_loop", "pricing_loop",
                   "peakhours_loop", "revenue_loop"}
         -> {Returns(PyNone), Raises("SystemExit"), Raises("Exception")}
    [] action = "get_gross_revenue"
         -> {Returns(PyNone), Raises("KeyError"), Raises("Exception")}
    [] OTHER -> {Returns(v) : v \in PyValues}
                  \cup {Raises("KeyError"), Raises("Exception")}

\* what get_user_input can return: the typed line, or None when the input
\* was interrupted
UserAnswers ==
  {PyNone} \cup {PyStr(s) : s \in {"", "1", "2", "4", "6", "7", "x", " 4"}}

\* select_action lets the exception of the action through
select_action_raises(d, key, outcome) ==
  key \in DOMAIN d /\ outcome.kind = "raises" /\ outcome.exc # "KeyError"

\* mutant of select_action: a key that is not in the dictionary gives True
select_action_TrueOnMissing(d, key, outcome) ==
  IF key \notin DOMAIN d THEN PyTrue
  ELSE IF outcome.kind = "raises" THEN PyFalse
  ELSE outcome.value

\* the value select_action returns
select_action(d, key, outcome) ==
  IF key \notin DOMAIN d THEN PyFalse
  ELSE IF outcome.kind = "raises" THEN PyFalse
  ELSE outcome.value

(***************************************************************************)
(* State.                                                                  *)
(*   donors         the module-level list of donor records                 *)
(*   pc             where the program is: "load" before load_donor_file,   *)
(*                  "menu", "AwaitName", "AwaitAmount", "AwaitAbort" at    *)
(*                  the four prompts, "done" after main returned,          *)
(*                  "exited" after sys.exit(1), "crashed" after an         *)
(*                  exception nobody caught                                *)
(*   current_donor  thank_you_entry's local: the parsed name, or the       *)
(*                  matched record                                         *)
(*   donor_id       thank_you_entry's local: 0 for None, else the 1-based  *)
(*                  position of the matched record                         *)
(*   typed          the parse of the name as it was typed                  *)
(*   file           donors.json on disk                                    *)
(*   mock           the module global `mock` read by main; the module      *)
(*                  never binds it, an importing test may                  *)
(*   clock          what datetime.utcnow() returns next                    *)
(*   out            what the last step printed                             *)
(*   entries        every completed entry so far: the typed name's         *)
(*                  match key and the amount                               *)
(*   report         the rows print_report printed in the last step         *)
(*   arg, result    the argument and the result of a call of parse_name    *)
(*                  on its own; in the wind-revenue UI, result is the      *)
(*                  local of run_interactive_loop                          *)
(*   arg_dict       run_interactive_loop's menu dictionary                 *)
(*   answer         run_interactive_loop's local: what get_user_input      *)
(*                  returned last                                          *)
(*   invoked        the actions select_action has called so far            *)
(*   returned       the value run_interactive_loop returned                *)
(***************************************************************************)
VARIABLES donors, pc, current_donor, donor_id, typed, file, mock, clock, out,
          entries, report, arg, result, arg_dict, answer, invoked, returned

vars ==
  <<donors, pc, current_donor, donor_id, typed, file, mock, clock, out,
    entries, report, arg, result,
                 arg_dict, answer, invoked, returned>>

\* the locals of thank_you_entry outside the amount prompt
NoDonor ==
  [full_name |-> <<>>, informal_name |-> <<>>, suffix |-> <<>>,
   last_name |-> <<>>, first_name |-> <<>>]

\* safe_input: the typed line, stripped
safe_input(line) == Strip(line)

(***************************************************************************)
(* What the program computes from each typed line, tabulated once.         *)
(***************************************************************************)
TypedLines == MainInputs \cup NameInputs \cup AmountInputs \cup AbortInputs

\* selection = safe_input(prompt)
Selection == [line \in TypedLines |-> safe_input(line)]

\* selection.lower()
SelectionLower == [line \in TypedLines |-> Lower(safe_input(line))]

\* does parse_name(selection) raise
NameRaises == [line \in NameInputs |-> parse_name_raises(safe_input(line))]

\* parse_name(selection), where it returns
NameParsed ==
  [line \in NameInputs |->
     IF parse_name_raises(safe_input(line)) THEN NoDonor
     ELSE parse_name(safe_input(line))]

\* does float(selection) raise ValueError
AmountRaises == [line \in AmountInputs |-> float_raises(safe_input(line))]

\* float(selection), where it returns
AmountValue ==
  [line \in AmountInputs |->
     IF float_raises(safe_input(line)) THEN 0 ELSE float(safe_input(line))]

\* existing_donor["first_name"]+" "+existing_donor["last_name"], lower-cased
\* and stripped
MatchKey(d) == Strip(Lower(d.first_name \o <<" ">> \o d.last_name))

(***************************************************************************)
(* The donor file.                                                         *)
(***************************************************************************)
FileAbsent == [kind |-> "absent", data |-> <<>>]

FileMalformed == [kind |-> "malformed", data |-> <<>>]

FileJson(ds) == [kind |-> "json", data |-> ds]

\* outcomes of save_donor_file: everything works, open(donor_file,'w')
\* raises, or the file is opened (and so emptied) and the write raises
SaveOutcomes == {"ok", "open_fails", "write_fails"}

\* the file after save_donor_file
save_donor_file_disk(f, ds, outcome) ==
  CASE outcome = "ok"          -> FileJson(ds)
    [] outcome = "open_fails"  -> f
    [] outcome = "write_fails" -> FileMalformed

\* the value save_donor_file returns
save_donor_file(outcome) == outcome = "ok"

(***************************************************************************)
(* print_report divides by the number of donations of every donor.         *)
(***************************************************************************)
print_report_raises(ds) == \E i \in 1..Len(ds) : Len(ds[i].donations) = 0

\* "{0:05d}": the decimal digits of n, zero-padded to five
ZeroPad5(n) ==
  <<Digits[((n \div 10000) % 10) + 1], Digits[((n \div 1000) % 10) + 1],
    Digits[((n \div 100) % 10) + 1], Digits[((n \div 10) % 10) + 1],
    Digits[(n % 10) + 1]>>

\* total_donations after the first k donations were added to it
RECURSIVE total_donations(_, _)
total_donations(donations, k) ==
  IF k = 0 THEN 0
  ELSE total_donations(donations, k - 1) + donations[k].amount

\* mutant of report_row: the position is counted from 1
report_row_From1(donor_index, donor) ==
  LET num_donations == Len(donor.donations)
      total         == total_donations(donor.donations, num_donations)
  IN  [index |-> ZeroPad5(donor_index + 1), full_name |-> donor.full_name,
       total |-> total, num |-> num_donations,
       average |-> [whole |-> total \div num_donations,
                    rest |-> total % num_donations]]

\* mutant of report_row: the average is taken over one gift too many
report_row_AverageOff(donor_index, donor) ==
  LET num_donations == Len(donor.donations)
      total         == total_donations(donor.donations, num_donations)
  IN  [index |-> ZeroPad5(donor_index), full_name |-> donor.full_name,
       total |-> total, num |-> num_donations,
       average |-> [whole |-> total \div (num_donations + 1),
                    rest |-> total % (num_donations + 1)]]

\* one row of the report: the position (from 0), the name, the total, the
\* number of gifts and the average total / number, kept exactly as the
\* whole hundredths and the rest of the division
report_row(donor_index, donor) ==
  LET num_donations == Len(donor.donations)
      total         == total_donations(donor.donations, num_donations)
  IN  [index |-> ZeroPad5(donor_index), full_name |-> donor.full_name,
       total |-> total, num |-> num_donations,
       average |-> [whole |-> total \div num_donations,
                    rest |-> total % num_donations]]

\* the rows print_report prints, where it does not raise
print_report(ds) == [i \in 1..Len(ds) |-> report_row(i - 1, ds[i])]

(***************************************************************************)
(* The lookup loop of thank_you_entry.  After a match current_donor IS the *)
(* matched record, and the records after it are compared with that         *)
(* record's full_name.                                                     *)
(***************************************************************************)
RECURSIVE find_donor(_, _, _, _)
find_donor(ds, i, cur, id) ==
  IF i > Len(ds) THEN [current_donor |-> cur, donor_id |-> id]
  ELSE LET existing_full_name == ds[i].first_name \o <<" ">> \o ds[i].last_name
       IN  IF Strip(Lower(existing_full_name)) = Strip(Lower(cur.full_name))
             THEN find_donor(ds, i + 1, ds[i], i)
             ELSE find_donor(ds, i + 1, cur, id)

\* mutant of add_donation: the donation, or the new donor, is put first
add_donation_Prepend(ds, id, cur, amount, now) ==
  LET donation == [amount |-> amount, date |-> now]
  IN  IF id # 0
        THEN [ds EXCEPT ![id].donations = <<donation>> \o @]
        ELSE <<[created |-> now, user_id |-> <<cur.full_name, now>>,
                donations |-> <<donation>>,
                full_name |-> cur.full_name, informal_name |-> cur.informal_name,
                suffix |-> cur.suffix, last_name |-> cur.last_name,
                first_name |-> cur.first_name]>> \o ds

\* mutant of add_donation: a new donor is stored without the donation
add_donation_NoFirstGift(ds, id, cur, amount, now) ==
  LET donation == [amount |-> amount, date |-> now]
  IN  IF id # 0
        THEN [ds EXCEPT ![id].donations = Append(@, donation)]
        ELSE Append(ds,
               [created |-> now, user_id |-> <<cur.full_name, now>>,
                donations |-> <<>>,
                full_name |-> cur.full_name, informal_name |-> cur.informal_name,
                suffix |-> cur.suffix, last_name |-> cur.last_name,
                first_name |-> cur.first_name])

\* the store after a donation of `amount` was accepted
add_donation(ds, id, cur, amount, now) ==
  LET donation == [amount |-> amount, date |-> now]
  IN  IF id # 0
        THEN [ds EXCEPT ![id].donations = Append(@, donation)]
        ELSE Append(ds,
               [created |-> now, user_id |-> <<cur.full_name, now>>,
                donations |-> <<donation>>,
                full_name |-> cur.full_name, informal_name |-> cur.informal_name,
                suffix |-> cur.suffix, last_name |-> cur.last_name,
                first_name |-> cur.first_name])

(***************************************************************************)
(* Start: donors = load_donor_file()                                       *)
(***************************************************************************)
Init ==
  /\ donors = <<>>
  /\ pc = "load"
  /\ current_donor = NoDonor
  /\ donor_id = 0
  /\ typed = NoDonor
  /\ file \in {FileAbsent, FileJson(<<>>), FileMalformed}
  /\ mock \in {"unset", "False", "True"}
  /\ clock = 0
  /\ out = <<>>
  /\ entries = <<>>
  /\ report = <<>>
  /\ arg = <<>>
  /\ result = NoDonor
  /\ arg_dict = NoDict
  /\ answer = PyNone
  /\ invoked = <<>>
  /\ returned = PyNone

\* the file is missing (an empty list) or holds a list
LoadOk ==
  /\ pc = "load"
  /\ file.kind \in {"absent", "json"}
  /\ donors' = file.data
  /\ pc' = "menu"
  /\ out' = <<>> /\ report' = <<>>
  /\ UNCHANGED <<current_donor, donor_id, typed, file, mock, clock, entries, arg, result,
                 arg_dict, answer, invoked, returned>>

\* mutant of LoadFails: the program goes on with an empty list
LoadFails_Continues ==
  /\ pc = "load"
  /\ \/ file.kind = "malformed" /\ out' = <<"file_corrupt">>
     \/ file.kind # "absent" /\ out' = <<"insufficient_permission">>
  /\ pc' = "menu"
  /\ report' = <<>>
  /\ UNCHANGED <<donors, current_donor, donor_id, typed, file, mock, clock,
                 entries, arg, result,
                 arg_dict, answer, invoked, returned>>

\* the file is there and is not JSON, or may not be read: sys.exit(1)
LoadFails ==
  /\ pc = "load"
  /\ \/ file.kind = "malformed" /\ out' = <<"file_corrupt">> /\ report' = <<>>
     \/ file.kind # "absent" /\ out' = <<"insufficient_permission">> /\ report' = <<>>
  /\ pc' = "exited"
  /\ UNCHANGED <<donors, current_donor, donor_id, typed, file, mock, clock, entries, arg, result,
                 arg_dict, answer, invoked, returned>>

(***************************************************************************)
(* main: one action for each branch of one pass of the loop                *)
(***************************************************************************)
MainSelection(line) == SelectionLower[line]

MainList ==
  /\ pc = "menu"
  /\ \E line \in MainInputs : MainSelection(line) \in ListWords
  /\ IF print_report_raises(donors)
       THEN pc' = "crashed" /\ out' = <<"ZeroDivisionError">> /\ report' = <<>>
       ELSE pc' = "menu" /\ out' = <<"report">> /\ report' = print_report(donors)
  /\ UNCHANGED <<donors, current_donor, donor_id, typed, file, mock, clock, entries, arg, result,
                 arg_dict, answer, invoked, returned>>

\* thank_all_donors opens one file per donor; open may raise
MainPrint ==
  /\ pc = "menu"
  /\ \E line \in MainInputs : MainSelection(line) \in PrintWords
  /\ \/ pc' = "menu" /\ out' = <<"letters">> /\ report' = <<>>
     \/ donors # <<>> /\ pc' = "crashed" /\ out' = <<"OSError">> /\ report' = <<>>
  /\ UNCHANGED <<donors, current_donor, donor_id, typed, file, mock, clock, entries, arg, result,
                 arg_dict, answer, invoked, returned>>

MainEnter ==
  /\ pc = "menu"
  /\ \E line \in MainInputs : MainSelection(line) \in EnterWords
  /\ pc' = "AwaitName"
  /\ out' = <<"name_menu">> /\ report' = <<>>
  /\ UNCHANGED <<donors, current_donor, donor_id, typed, file, mock, clock, entries, arg, result,
                 arg_dict, answer, invoked, returned>>

MainDebug ==
  /\ pc = "menu"
  /\ \E line \in MainInputs : MainSelection(line) \in DebugWords
  /\ pc' = "menu"
  /\ out' = <<"debug">> /\ report' = <<>>
  /\ UNCHANGED <<donors, current_donor, donor_id, typed, file, mock, clock, entries, arg, result,
                 arg_dict, answer, invoked, returned>>

\* q or quit: save, and on failure ask whether to leave anyway
MainQuit ==
  /\ pc = "menu"
  /\ \E line \in MainInputs : MainSelection(line) \in QuitWords
  /\ \E outcome \in SaveOutcomes :
       /\ file' = save_donor_file_disk(file, donors, outcome)
       /\ IF save_donor_file(outcome)
            THEN pc' = "done" /\ out' = <<"records_saved", "goodbye">> /\ report' = <<>>
            ELSE CASE mock = "unset" ->
                        /\ pc' = "crashed"
                        /\ out' = <<"couldnt_write", "please_resolve", "NameError">> /\ report' = <<>>
                   [] mock = "True" ->
                        \* safe_input returns its default mock_in, "",
                        \* which does not contain 'exit': selection = None
                        /\ pc' = "menu"
                        /\ out' = <<"couldnt_write", "please_resolve">> /\ report' = <<>>
                   [] mock = "False" ->
                        /\ pc' = "AwaitAbort"
                        /\ out' = <<"couldnt_write", "please_resolve">> /\ report' = <<>>
  /\ UNCHANGED <<donors, current_donor, donor_id, typed, mock, clock, entries, arg, result,
                 arg_dict, answer, invoked, returned>>

\* "0" ends the loop and no branch of the pass handles it
MainZero ==
  /\ pc = "menu"
  /\ \E line \in MainInputs :
       /\ MainSelection(line) \in LeaveWords
       /\ MainSelection(line) \notin QuitWords
  /\ pc' = "done"
  /\ out' = <<"goodbye">> /\ report' = <<>>
  /\ UNCHANGED <<donors, current_donor, donor_id, typed, file, mock, clock, entries, arg, result,
                 arg_dict, answer, invoked, returned>>

MainOther ==
  /\ pc = "menu"
  /\ \E line \in MainInputs :
       MainSelection(line) \notin
         (ListWords \cup PrintWords \cup EnterWords \cup DebugWords
            \cup QuitWords \cup LeaveWords)
  /\ pc' = "menu"
  /\ out' = <<>> /\ report' = <<>>
  /\ UNCHANGED <<donors, current_donor, donor_id, typed, file, mock, clock, entries, arg, result,
                 arg_dict, answer, invoked, returned>>

\* the answer to "Enter 'exit' to quit anyways and abandon changes:"
AbortExitOn(line) ==
  /\ pc = "AwaitAbort"
  /\ Contains(Selection[line], ExitWord)
  /\ pc' = "done"
  /\ out' = <<"goodbye">> /\ report' = <<>>
  /\ UNCHANGED <<donors, current_donor, donor_id, typed, file, mock, clock, entries, arg, result,
                 arg_dict, answer, invoked, returned>>

AbortExit == \E line \in AbortInputs : AbortExitOn(line)

AbortStayOn(line) ==
  /\ pc = "AwaitAbort"
  /\ ~Contains(Selection[line], ExitWord)
  /\ pc' = "menu"
  /\ out' = <<>> /\ report' = <<>>
  /\ UNCHANGED <<donors, current_donor, donor_id, typed, file, mock, clock, entries, arg, result,
                 arg_dict, answer, invoked, returned>>

AbortStay == \E line \in AbortInputs : AbortStayOn(line)

(***************************************************************************)
(* thank_you_entry at the name prompt: XOn(line) is what the program does  *)
(* when `line` is typed, X is XOn for some line                            *)
(***************************************************************************)
NameQuitOn(line) ==
  /\ pc = "AwaitName"
  /\ SelectionLower[line] \in QuitWords
  /\ pc' = "menu"
  /\ out' = <<>> /\ report' = <<>>
  /\ UNCHANGED <<donors, current_donor, donor_id, typed, file, mock, clock, entries, arg, result,
                 arg_dict, answer, invoked, returned>>

NameQuit == \E line \in NameInputs : NameQuitOn(line)

NameListOn(line) ==
  /\ pc = "AwaitName"
  /\ SelectionLower[line] \in ListWords
  /\ IF print_report_raises(donors)
       THEN pc' = "crashed" /\ out' = <<"ZeroDivisionError">> /\ report' = <<>>
       ELSE pc' = "AwaitName" /\ out' = <<"report">> /\ report' = print_report(donors)
  /\ UNCHANGED <<donors, current_donor, donor_id, typed, file, mock, clock, entries, arg, result,
                 arg_dict, answer, invoked, returned>>

NameList == \E line \in NameInputs : NameListOn(line)

NameEmptyOn(line) ==
  /\ pc = "AwaitName"
  /\ Selection[line] = <<>>
  /\ pc' = "AwaitName"
  /\ out' = <<>> /\ report' = <<>>
  /\ UNCHANGED <<donors, current_donor, donor_id, typed, file, mock, clock, entries, arg, result,
                 arg_dict, answer, invoked, returned>>

NameEmpty == \E line \in NameInputs : NameEmptyOn(line)

\* a line that is a name: not a directive and not empty
IsNameLine(line) ==
  /\ SelectionLower[line] \notin QuitWords \cup ListWords
  /\ Selection[line] # <<>>

\* parse_name raises IndexError and nothing catches it
NameCrashOn(line) ==
  /\ pc = "AwaitName"
  /\ IsNameLine(line)
  /\ NameRaises[line]
  /\ pc' = "crashed"
  /\ out' = <<"IndexError">> /\ report' = <<>>
  /\ UNCHANGED <<donors, current_donor, donor_id, typed, file, mock, clock, entries, arg, result,
                 arg_dict, answer, invoked, returned>>

NameCrash == \E line \in NameInputs : NameCrashOn(line)

\* mutant of MissingPart: only the last name is tested
MissingPart_LastOnly(parsed) == parsed.last_name = <<>>

\* current_donor["first_name"] == "" or current_donor["last_name"] == ""
MissingPart(parsed) == parsed.first_name = <<>> \/ parsed.last_name = <<>>

NameRejectedOn(line) ==
  /\ pc = "AwaitName"
  /\ IsNameLine(line)
  /\ ~NameRaises[line]
  /\ MissingPart(NameParsed[line])
  /\ pc' = "AwaitName"
  /\ out' = <<"need_first_and_last">> /\ report' = <<>>
  /\ UNCHANGED <<donors, current_donor, donor_id, typed, file, mock, clock, entries, arg, result,
                 arg_dict, answer, invoked, returned>>

NameRejected == \E line \in NameInputs : NameRejectedOn(line)

NameAcceptedOn(line) ==
  /\ pc = "AwaitName"
  /\ IsNameLine(line)
  /\ ~NameRaises[line]
  /\ ~MissingPart(NameParsed[line])
  /\ LET found == find_donor(donors, 1, NameParsed[line], 0)
     IN  /\ current_donor' = found.current_donor
         /\ donor_id' = found.donor_id
  /\ typed' = NameParsed[line]
  /\ pc' = "AwaitAmount"
  /\ out' = <<"amount_menu">> /\ report' = <<>>
  /\ UNCHANGED <<donors, file, mock, clock, entries, arg, result,
                 arg_dict, answer, invoked, returned>>

NameAccepted == \E line \in NameInputs : NameAcceptedOn(line)

\* one pass of the loop of thank_you_entry up to the amount prompt
NameStep(line) ==
  \/ NameQuitOn(line) \/ NameListOn(line) \/ NameEmptyOn(line)
  \/ NameCrashOn(line) \/ NameRejectedOn(line) \/ NameAcceptedOn(line)

(***************************************************************************)
(* thank_you_entry at the amount prompt (get_donation_amount)              *)
(***************************************************************************)
\* mutant of AmountQuitOn: a donor that was not found is put into the store
\* before the amount is known, and the cancel leaves it there
AmountQuitOn_KeepsDonor(line) ==
  /\ pc = "AwaitAmount"
  /\ SelectionLower[line] \in QuitWords
  /\ pc' = "menu"
  /\ out' = <<"donation_cancelled">> /\ report' = <<>>
  /\ donors' = IF donor_id # 0 THEN donors
               ELSE Append(donors,
                      [created |-> clock, user_id |-> <<current_donor.full_name, clock>>,
                       donations |-> <<>>,
                       full_name |-> current_donor.full_name,
                       informal_name |-> current_donor.informal_name,
                       suffix |-> current_donor.suffix,
                       last_name |-> current_donor.last_name,
                       first_name |-> current_donor.first_name])
  /\ current_donor' = NoDonor
  /\ donor_id' = 0
  /\ typed' = NoDonor
  /\ UNCHANGED <<file, mock, clock, entries, arg, result,
                 arg_dict, answer, invoked, returned>>

AmountQuitOn(line) ==
  /\ pc = "AwaitAmount"
  /\ SelectionLower[line] \in QuitWords
  /\ pc' = "menu"
  /\ out' = <<"donation_cancelled">> /\ report' = <<>>
  /\ current_donor' = NoDonor
  /\ donor_id' = 0
  /\ typed' = NoDonor
  /\ UNCHANGED <<donors, file, mock, clock, entries, arg, result,
                 arg_dict, answer, invoked, returned>>

AmountQuit == \E line \in AmountInputs : AmountQuitOn(line)

AmountInvalidOn(line) ==
  /\ pc = "AwaitAmount"
  /\ SelectionLower[line] \notin QuitWords
  /\ AmountRaises[line]
  /\ pc' = "AwaitAmount"
  /\ out' = <<"must_be_numeric">> /\ report' = <<>>
  /\ UNCHANGED <<donors, current_donor, donor_id, typed, file, mock, clock, entries, arg, result,
                 arg_dict, answer, invoked, returned>>

AmountInvalid == \E line \in AmountInputs : AmountInvalidOn(line)

\* float(selection) worked: the amount is returned and recorded, the donor
\* is thanked, and the loop of thank_you_entry prompts for the next name
AmountAcceptedOn(line) ==
  /\ pc = "AwaitAmount"
  /\ Len(entries) < MaxEntries
  /\ SelectionLower[line] \notin QuitWords
  /\ ~AmountRaises[line]
  /\ donors' = add_donation(donors, donor_id, current_donor,
                            AmountValue[line], clock)
  /\ entries' = Append(entries,
                  [key |-> MatchKey(typed), amount |-> AmountValue[line]])
  /\ out' = <<IF donor_id # 0 THEN "thank_you_returning" ELSE "thank_you_new">> /\ report' = <<>>
  /\ clock' = clock + 1
  /\ pc' = "AwaitName"
  /\ current_donor' = NoDonor
  /\ donor_id' = 0
  /\ typed' = NoDonor
  /\ UNCHANGED <<file, mock, arg, result,
                 arg_dict, answer, invoked, returned>>

AmountAccepted == \E line \in AmountInputs : AmountAcceptedOn(line)

\* one answer at the amount prompt
AmountStep(line) ==
  \/ AmountQuitOn(line) \/ AmountInvalidOn(line) \/ AmountAcceptedOn(line)

Next ==
  \/ LoadOk \/ LoadFails
  \/ MainList \/ MainPrint \/ MainEnter \/ MainDebug
  \/ MainQuit \/ MainZero \/ MainOther
  \/ AbortExit \/ AbortStay
  \/ NameQuit \/ NameList \/ NameEmpty \/ NameCrash \/ NameRejected \/ NameAccepted
  \/ AmountQuit \/ AmountInvalid \/ AmountAccepted

Spec == Init /\ [][Next]_vars

(***************************************************************************)
(* The program started on a donor file that holds records: two records of  *)
(* the same first and last name, as a file edited by hand may have.        *)
(***************************************************************************)
StoredDonors ==
  << [created |-> 0 - 2, user_id |-> <<<<"A","l"," ","B","o">>, 0 - 2>>,
      donations |-> << [amount |-> 1000, date |-> 0 - 2] >>,
      full_name |-> <<"A","l"," ","B","o">>, informal_name |-> <<"A","l"," ","B","o">>,
      suffix |-> <<>>, last_name |-> <<"B","o">>, first_name |-> <<"A","l">>],
     [created |-> 0 - 1, user_id |-> <<<<"A","l"," ","B","o">>, 0 - 1>>,
      donations |-> << [amount |-> 2050, date |-> 0 - 1] >>,
      full_name |-> <<"A","l"," ","B","o">>, informal_name |-> <<"A","l"," ","B","o">>,
      suffix |-> <<>>, last_name |-> <<"B","o">>, first_name |-> <<"A","l">>] >>

InitLoaded ==
  /\ donors = <<>>
  /\ pc = "load"
  /\ current_donor = NoDonor
  /\ donor_id = 0
  /\ typed = NoDonor
  /\ file \in {FileAbsent, FileJson(StoredDonors), FileMalformed}
  /\ mock \in {"unset", "False", "True"}
  /\ clock = 0
  /\ out = <<>>
  /\ entries = <<>>
  /\ report = <<>>
  /\ arg = <<>>
  /\ result = NoDonor
  /\ arg_dict = NoDict
  /\ answer = PyNone
  /\ invoked = <<>>
  /\ returned = PyNone

SpecLoaded == InitLoaded /\ [][Next]_vars

(***************************************************************************)
(* parse_name called on its own, on every text of up to MaxNameLen         *)
(* characters over a small alphabet and on the names of its examples.      *)
(***************************************************************************)
MaxNameLen == 5

ParseAlphabet == {"a", "B", " ", ","}

ParseInputs ==
  UNION {[1..n -> ParseAlphabet] : n \in 0..MaxNameLen}
    \cup { <<"J","a","n","e"," ","D","o","e">>,
           <<"J","o","h","n"," ","S","m","i","t","h",","," ","J","r">>,
           <<"M","a","d","o","n","n","a">> }

InitParse ==
  /\ donors = <<>>
  /\ pc = "call"
  /\ current_donor = NoDonor
  /\ donor_id = 0
  /\ typed = NoDonor
  /\ file = FileAbsent
  /\ mock = "unset"
  /\ clock = 0
  /\ out = <<>>
  /\ entries = <<>>
  /\ report = <<>>
  /\ arg \in ParseInputs
  /\ result = NoDonor
  /\ arg_dict = NoDict
  /\ answer = PyNone
  /\ invoked = <<>>
  /\ returned = PyNone

ParseReturns ==
  /\ pc = "call"
  /\ ~parse_name_raises(arg)
  /\ result' = parse_name(arg)
  /\ pc' = "returned"
  /\ UNCHANGED <<donors, current_donor, donor_id, typed, file, mock, clock, out,
                 entries, report, arg, arg_dict, answer, invoked, returned>>

ParseRaises ==
  /\ pc = "call"
  /\ parse_name_raises(arg)
  /\ pc' = "raised"
  /\ UNCHANGED <<donors, current_donor, donor_id, typed, file, mock, clock, out,
                 entries, report, arg, result,
                 arg_dict, answer, invoked, returned>>

NextParse == ParseReturns \/ ParseRaises

SpecParse == InitParse /\ [][NextParse]_vars

(***************************************************************************)
(* run_interactive_loop on its own, one action per pass of the loop.       *)
(***************************************************************************)
InitUI ==
  /\ donors = <<>>
  /\ pc = "prompt"
  /\ current_donor = NoDonor
  /\ donor_id = 0
  /\ typed = NoDonor
  /\ file = FileAbsent
  /\ mock = "unset"
  /\ clock = 0
  /\ out = <<>>
  /\ entries = <<>>
  /\ report = <<>>
  /\ arg = <<>>
  /\ result = PyUnbound
  /\ arg_dict \in {MainMenu, MetMenu, RevenueMenu}
  /\ answer = PyUnbound
  /\ invoked = <<>>
  /\ returned = PyNone

\* `if answer:` fails: the pass does nothing more
LoopSkipsOn(a) ==
  /\ pc = "prompt"
  /\ ~Truthy(a)
  /\ answer' = a
  /\ UNCHANGED <<donors, pc, current_donor, donor_id, typed, file, mock, clock,
                 out, entries, report, arg, result, arg_dict, invoked, returned>>

LoopSkips == \E a \in UserAnswers : LoopSkipsOn(a)

\* the answer is not a key of the dictionary
LoopMissingOn(a) ==
  /\ pc = "prompt"
  /\ Truthy(a)
  /\ a.repr \notin DOMAIN arg_dict
  /\ answer' = a
  /\ result' = select_action(arg_dict, a.repr, NoCall)
  /\ IF Truthy(result')
       THEN pc' = "returned" /\ returned' = PyTrue
       ELSE pc' = "prompt" /\ returned' = returned
  /\ UNCHANGED <<donors, current_donor, donor_id, typed, file, mock, clock,
                 out, entries, report, arg, arg_dict, invoked>>

LoopMissing == \E a \in UserAnswers : LoopMissingOn(a)

\* the answer is a key: its action is called and returns, or raises KeyError
LoopInvokesOn(a, outcome) ==
  /\ pc = "prompt"
  /\ Truthy(a)
  /\ a.repr \in DOMAIN arg_dict
  /\ Len(invoked) < MaxCalls
  /\ outcome \in ActionOutcomes(arg_dict[a.repr])
  /\ ~select_action_raises(arg_dict, a.repr, outcome)
  /\ answer' = a
  /\ invoked' = Append(invoked, arg_dict[a.repr])
  /\ result' = select_action(arg_dict, a.repr, outcome)
  /\ IF Truthy(result')
       THEN pc' = "returned" /\ returned' = PyTrue
       ELSE pc' = "prompt" /\ returned' = returned
  /\ UNCHANGED <<donors, current_donor, donor_id, typed, file, mock, clock,
                 out, entries, report, arg, arg_dict>>

LoopInvokes ==
  \E a \in UserAnswers :
    \E outcome \in {Returns(v) : v \in PyValues} \cup {Raises("KeyError")} :
      LoopInvokesOn(a, outcome)

\* the action raises something else than KeyError (quit_code: SystemExit)
LoopRaisesOn(a, outcome) ==
  /\ pc = "prompt"
  /\ Truthy(a)
  /\ a.repr \in DOMAIN arg_dict
  /\ Len(invoked) < MaxCalls
  /\ outcome \in ActionOutcomes(arg_dict[a.repr])
  /\ select_action_raises(arg_dict, a.repr, outcome)
  /\ answer' = a
  /\ invoked' = Append(invoked, arg_dict[a.repr])
  /\ pc' = "raised"
  /\ out' = <<outcome.exc>>
  /\ UNCHANGED <<donors, current_donor, donor_id, typed, file, mock, clock,
                 entries, report, arg, result, arg_dict, returned>>

LoopRaises ==
  \E a \in UserAnswers :
    \E outcome \in {Raises("SystemExit"), Raises("Exception")} :
      LoopRaisesOn(a, outcome)

NextUI == LoopSkips \/ LoopMissing \/ LoopInvokes \/ LoopRaises

SpecUI == InitUI /\ [][NextUI]_vars

(***************************************************************************)
(* Properties                                                              *)
(***************************************************************************)
\* the amounts of a donor's donations, in order
DonationAmounts(d) == [j \in 1..Len(d.donations) |-> d.donations[j].amount]

\* the amounts of the completed entries made under match key k, in order
RECURSIVE AmountsFor(_, _)
AmountsFor(es, k) ==
  IF es = <<>> THEN <<>>
  ELSE IF Head(es).key = k THEN <<Head(es).amount>> \o AmountsFor(Tail(es), k)
  ELSE AmountsFor(Tail(es), k)

\* the typed name has single spaces between its tokens
SingleSpaced(parsed) ==
  parsed.informal_name = parsed.first_name \o <<" ">> \o parsed.last_name

\* this step is a pass of main in which save_donor_file returned False
SaveFailedStep == pc = "menu" /\ out' # <<>> /\ out'[1] = "couldnt_write"

\* C1: no two donor records in the store have the same lower-cased, trimmed
\* first_name + " " + last_name
C1_OneRecordPerName ==
  \A i, j \in 1..Len(donors) :
    i # j => MatchKey(donors[i]) # MatchKey(donors[j])

\* C2: when a donor exists and the same name (no suffix on either side) is
\* typed again in another casing or spacing, the lookup resolves to that
\* donor, and completing the entry adds one donation to it and no record
C2_MatchingIdempotent ==
  [][\A i \in 1..Len(donors) :
       (/\ pc = "AwaitAmount"
        /\ typed.suffix = <<>>
        /\ donors[i].suffix = <<>>
        /\ MatchKey(donors[i]) = MatchKey(typed))
       => /\ donor_id = i
          /\ pc' = "AwaitName" =>
               /\ Len(donors') = Len(donors)
               /\ Len(donors'[i].donations) = Len(donors[i].donations) + 1]_vars

\* C3: the suffix is not part of the match key: a typed name (single-spaced,
\* with or without a suffix) whose "first last" equals an existing donor's
\* "first last" resolves to a donor with that "first last"
C3_SuffixExcludedFromKey ==
  (pc = "AwaitAmount" /\ SingleSpaced(typed)
     /\ \E i \in 1..Len(donors) : MatchKey(donors[i]) = MatchKey(typed))
  => (donor_id # 0 /\ MatchKey(donors[donor_id]) = MatchKey(typed))

\* C4: after N completed entries of one person's name, each with a positive
\* amount, a record of that person holds exactly those N amounts in the
\* order of entry
C4_AppendOnlyCount ==
  \A n \in 1..Len(entries) :
    LET amounts == AmountsFor(entries, entries[n].key)
    IN  (\A j \in 1..Len(amounts) : amounts[j] > 0)
        => \E i \in 1..Len(donors) :
             /\ MatchKey(donors[i]) = entries[n].key
             /\ DonationAmounts(donors[i]) = amounts

\* C5: every donation amount in the store is strictly positive
C5_AmountsPositive ==
  \A i \in 1..Len(donors) :
    \A j \in 1..Len(donors[i].donations) : donors[i].donations[j].amount > 0

\* C6: from the acceptance of the name up to and including a quit at the
\* amount prompt, the store does not change: no step into or within the
\* amount prompt changes it, and neither does the step that cancels
C6_CancelLeavesStore ==
  [][(\/ pc' = "AwaitAmount"
      \/ \E line \in AmountInputs :
           SelectionLower[line] \in QuitWords /\ AmountStep(line))
     => donors' = donors]_vars

\* C6 witness: an entry was cancelled at the amount prompt while the store
\* held a donor
C6_Witness ==
  pc = "menu" /\ out = <<"donation_cancelled">> /\ Len(donors) >= 1

\* C7: a typed name whose parse has an empty first or last name leaves the
\* store unchanged and the flow at the name prompt, and every donor record
\* has a non-empty first_name and last_name
C7_InvalidNameRejected ==
  /\ [][\A line \in NameInputs :
          (/\ IsNameLine(line)
           /\ ~NameRaises[line]
           /\ (NameParsed[line].first_name = <<>> \/ NameParsed[line].last_name = <<>>)
           /\ NameStep(line))
          => (donors' = donors /\ pc' = "AwaitName")]_vars
  /\ [](\A i \in 1..Len(donors) :
          donors[i].first_name # <<>> /\ donors[i].last_name # <<>>)

\* C7 witness: a single-token name was rejected while the store held a donor
C7_Witness ==
  pc = "AwaitName" /\ out = <<"need_first_and_last">> /\ Len(donors) >= 1

\* C8: every non-empty name line from which parse_name cannot produce both
\* a first and a last name is answered by prompting for the name again
C8_InvalidNameRecovers ==
  [][\A line \in NameInputs :
       (/\ IsNameLine(line)
        /\ (NameRaises[line]
              \/ NameParsed[line].first_name = <<>>
              \/ NameParsed[line].last_name = <<>>)
        /\ NameStep(line))
       => pc' = "AwaitName"]_vars

\* C9: when the save fails at quit the donor list is kept and the program
\* goes on, to the 'exit' question or to the main menu
C9_SaveFailureKeepsList ==
  [][SaveFailedStep
     => (donors' = donors /\ pc' \in {"menu", "AwaitAbort"})]_vars

\* C10: a save that fails leaves a complete donor file as it was
C10_FailedSaveKeepsFile ==
  [][(SaveFailedStep /\ file.kind = "json") => file' = file]_vars

\* C11: an entry cycle that is done (the amount prompt is left) or
\* cancelled (quit at the name or at the amount prompt) returns to the main
\* menu
C11_EntryCycleTerminal ==
  [][(\/ pc = "AwaitAmount" /\ pc' # "AwaitAmount"
      \/ \E line \in NameInputs :
           SelectionLower[line] \in QuitWords /\ NameStep(line))
     => pc' = "menu"]_vars

\* donors2 is donors1 with one donor appended, or with one donation
\* appended to one donor
OneGiftMore(donors1, donors2) ==
  \/ /\ Len(donors2) = Len(donors1) + 1
     /\ SubSeq(donors2, 1, Len(donors1)) = donors1
  \/ /\ Len(donors2) = Len(donors1)
     /\ \E i \in 1..Len(donors1) :
          /\ Len(donors2[i].donations) = Len(donors1[i].donations) + 1
          /\ donors2 =
               [donors1 EXCEPT
                  ![i].donations =
                     Append(@, donors2[i].donations[Len(donors2[i].donations)])]

\* C12: the store changes only in a step that accepts a valid (numeric and
\* positive) amount, and there only by one new donor or one more donation
C12_StoreChangesOnlyOnValidAmount ==
  [][donors' # donors
     => /\ \E line \in AmountInputs :
             /\ AmountStep(line)
             /\ SelectionLower[line] \notin QuitWords
             /\ ~AmountRaises[line]
             /\ AmountValue[line] > 0
        /\ OneGiftMore(donors, donors')]_vars

Capitalized(w) ==
  [i \in 1..Len(w) |-> IF i = 1 THEN UpperChar(w[i]) ELSE LowerChar(w[i])]

\* C14: for a text of one or more name tokens, optionally followed by one
\* comma and a suffix, last_name is the capitalized last token before the
\* comma, first_name the capitalized tokens before it joined by one space,
\* and suffix the upper-cased trimmed text after the comma, or empty;
\* "Jane Doe" gives Jane, Doe and no suffix, "John Smith, Jr" gives JR
C14_ParseNameComponents ==
  (pc = "returned" /\ Len(SplitOn(arg, ",")) <= 2)
  => LET pieces == SplitOn(arg, ",")
         tokens == SplitWS(pieces[1])
         n      == Len(tokens)
     IN  /\ result.last_name = Capitalized(tokens[n])
         /\ result.first_name =
              Join(<<" ">>, [i \in 1..(n - 1) |-> Capitalized(tokens[i])])
         /\ result.suffix =
              IF Len(pieces) = 2 THEN Upper(Strip(pieces[2])) ELSE <<>>
         /\ arg = <<"J","a","n","e"," ","D","o","e">>
              => /\ result.first_name = <<"J","a","n","e">>
                 /\ result.last_name = <<"D","o","e">>
                 /\ result.suffix = <<>>
         /\ arg = <<"J","o","h","n"," ","S","m","i","t","h",","," ","J","r">> => result.suffix = <<"J","R">>

\* C14 witness: parse_name returned for a text of three tokens, two of
\* them in the first name
C14_Witness ==
  /\ pc = "returned"
  /\ Len(SplitOn(arg, ",")) = 1
  /\ Len(SplitWS(arg)) = 3
  /\ Len(result.first_name) = 3

\* C15: the full_name of every donor record is first_name + " " + last_name,
\* followed by ", " + suffix when there is a suffix
C15_CanonicalFullName ==
  \A i \in 1..Len(donors) :
    donors[i].full_name =
      IF donors[i].suffix = <<>>
        THEN donors[i].first_name \o <<" ">> \o donors[i].last_name
        ELSE donors[i].first_name \o <<" ">> \o donors[i].last_name
               \o <<",", " ">> \o donors[i].suffix

\* C16: the report has one row per donor, in the order of the store, and
\* the five-digit index of each row is the donor's position, counted from 0
C16_ReportRowsInStoreOrder ==
  out = <<"report">>
  => /\ Len(report) = Len(donors)
     /\ \A i \in 1..Len(donors) :
          /\ report[i].full_name = donors[i].full_name
          /\ Len(report[i].index) = 5
          /\ AllDigits(report[i].index)
          /\ DigitsValue(report[i].index) = i - 1

\* C16 witness: a report of two donors whose order of entry is not the
\* alphabetical one
C16_Witness ==
  /\ out = <<"report">>
  /\ Len(report) = 2
  /\ donors[1].full_name = <<"B","o"," ","A","l">>
  /\ donors[2].full_name = <<"A","l"," ","B","o">>

\* the sum of a sequence of numbers
RECURSIVE SumSeq(_)
SumSeq(xs) == IF xs = <<>> THEN 0 ELSE Head(xs) + SumSeq(Tail(xs))

\* C17: for every donor with a donation the row's total is the sum of the
\* donor's amounts, its count the number of donations and its average
\* total / count; donations 10.00 and 20.50 give 30.50, 2 and 15.25
C17_ReportTotals ==
  out = <<"report">>
  => \A i \in 1..Len(donors) :
       Len(donors[i].donations) >= 1
       => /\ report[i].total = SumSeq(DonationAmounts(donors[i]))
          /\ report[i].num = Len(donors[i].donations)
          /\ report[i].average.whole * report[i].num + report[i].average.rest
               = report[i].total
          /\ report[i].average.rest \in 0..(report[i].num - 1)
          /\ DonationAmounts(donors[i]) = <<1000, 2050>>
               => /\ report[i].total = 3050
                  /\ report[i].num = 2
                  /\ report[i].average = [whole |-> 1525, rest |-> 0]

\* C17 witness: the report of a donor who gave 10.00 and then 20.50
C17_Witness ==
  /\ out = <<"report">>
  /\ \E i \in 1..Len(donors) : DonationAmounts(donors[i]) = <<1000, 2050>>

\* C18: loading gives the empty list when there is no file and the stored
\* list when the file is well-formed, and ends the process when the file
\* is malformed or may not be read; an ended process takes no further step
C18_LoadOutcomes ==
  /\ [][pc = "load"
        => /\ file.kind = "absent" => (pc' = "menu" /\ donors' = <<>>)
           /\ file.kind = "json"
                => \/ pc' = "menu" /\ donors' = file.data
                   \/ pc' = "exited"
           /\ file.kind = "malformed" => pc' = "exited"]_vars
  /\ [][pc # "exited"]_vars

\* C18 witness: the program is at the main menu with the stored donors
C18_Witness ==
  pc = "menu" /\ donors = StoredDonors /\ file = FileJson(StoredDonors)

\* C19: every donor record has at least one donation, no step removes or
\* reorders the donations a record has, and print_report never divides by
\* zero
C19_DonationsNeverEmpty ==
  /\ [](/\ \A i \in 1..Len(donors) : Len(donors[i].donations) >= 1
        /\ ~(pc = "crashed" /\ out = <<"ZeroDivisionError">>))
  /\ [][\A i \in 1..Len(donors) :
          /\ i <= Len(donors')
          /\ Len(donors'[i].donations) >= Len(donors[i].donations)
          /\ SubSeq(donors'[i].donations, 1, Len(donors[i].donations))
               = donors[i].donations]_vars

\* C19 witness: the report of a store of one donor was printed at the name
\* prompt
C19_Witness ==
  pc = "AwaitName" /\ out = <<"report">> /\ Len(donors) = 1

\* C20: the lookup selects the lowest-index donor whose key equals the key
\* of the typed name (typed without suffix, single-spaced)
C20_FirstMatchWins ==
  (pc = "AwaitAmount" /\ typed.suffix = <<>> /\ SingleSpaced(typed)
     /\ \E i \in 1..Len(donors) : MatchKey(donors[i]) = MatchKey(typed))
  => /\ donor_id # 0
     /\ MatchKey(donors[donor_id]) = MatchKey(typed)
     /\ \A i \in 1..Len(donors) :
          MatchKey(donors[i]) = MatchKey(typed) => donor_id <= i

\* C21: main never ends normally without a save of the donor list attempted
\* in the pass of the menu loop that ends it: the step that ends main either
\* saves the current list, or answers the prompt that follows a failed save
C21_SaveBeforeNormalEnd ==
  [][(pc # "done" /\ pc' = "done")
     => \/ pc = "AwaitAbort"
        \/ pc = "menu" /\ out' = <<"records_saved", "goodbye">>
             /\ file' = FileJson(donors)]_vars

====
